---- MODULE Spec2Model ----
(***************************************************************************)
(* Worksheet serializer of excel-rs: the untyped writer (sheet.rs, Sheet)  *)
(* and the typed writer (typed_sheet.rs, TypedSheet).                      *)
(*                                                                         *)
(* Bytes are one-character strings, byte strings are sequences of them.    *)
(* The sink (the ZipWriter entry the worksheet streams into) is the        *)
(* sequence of the writes it received, one element per call of             *)
(* sheet_buf.write: the fixed literals are named elements, a row is the    *)
(* element assembled in final_vec with its r attribute and its cells.      *)
(***************************************************************************)
EXTENDS Naturals, Integers, Sequences, FiniteSets

VARIABLES
    kind,                \* "Sheet" (sheet.rs) or "TypedSheet" (typed_sheet.rs)
    col_num_to_letter,   \* the column-letter cache, Vec<Vec<u8>>
    current_row_num,     \* u32 row counter
    has_auto_filter,     \* bool
    sheet_data_started,  \* bool
    freeze_top_row,      \* bool
    sink,                \* what sheet_buf has been handed, in order
    last,                \* history: the last call, its arguments and its result
    count,               \* history: calls made so far of init_sheet, write_row, close
    phase                \* history: position of the call sequence in the documented order

vars == <<kind, col_num_to_letter, current_row_num, has_auto_filter,
          sheet_data_started, freeze_top_row, sink, last, count, phase>>

(***************************************************************************)
(* Bounds of the model and the inputs the caller draws from.               *)
(***************************************************************************)
MaxCalls == 3
MaxCols == 2

\* Cell contents: plain text, text with a reserved byte, the empty cell.
Samples == << <<"a">>, <<"<", "b">>, <<>>, <<"x", "&", "y">> >>

\* The cell a caller puts in column i (from 1) of a row.
Cell(i) == Samples[((i - 1) % Len(Samples)) + 1]

\* A row is MaxCols or fewer cells.
Rows == { [i \in 1..w |-> Cell(i)] : w \in 0..MaxCols }

TYPE_NUMBER == "n"
TYPE_DATE == "d"
TYPE_STRING == "str"

\* The types lists a caller builds from the exported tags.
TypeLists == { <<>>, <<TYPE_NUMBER>>, <<TYPE_DATE, TYPE_STRING>>,
               <<TYPE_STRING, TYPE_NUMBER, TYPE_DATE>> }

(***************************************************************************)
(* The literals written to the sink.                                       *)
(***************************************************************************)
WorksheetOpen == [el |-> "worksheet"]
SheetViews == [el |-> "sheetViews", ySplit |-> <<"1">>, xSplit |-> <<"0">>,
               topLeftCell |-> <<"A", "2">>, state |-> "frozen"]
SheetDataOpen == [el |-> "sheetData"]
SheetDataClose == [el |-> "/sheetData"]
WorksheetClose == [el |-> "/worksheet"]
AutoFilter(range) == [el |-> "autoFilter", ref |-> range]

(***************************************************************************)
(* num_to_bytes: the decimal digits of the row counter, right-aligned in a *)
(* 9-byte array, and how many there are.                                   *)
(***************************************************************************)
NUL == "NUL"
ZeroArr == [i \in 1..9 |-> NUL]
Digit(d) == <<"0", "1", "2", "3", "4", "5", "6", "7", "8", "9">>[d + 1]

RECURSIVE num_loop(_, _, _, _)
num_loop(arr, row, char_pos, digits) ==
    IF row > 0
    THEN num_loop([arr EXCEPT ![char_pos + 1] = Digit(row % 10)],
                  row \div 10, char_pos - 1, digits + 1)
    ELSE [arr |-> arr, digits |-> digits]

num_to_bytes(n) == num_loop(ZeroArr, n, 8, 0)

Sheet_num_to_bytes(n) ==
    IF n = 0
    THEN [arr |-> [ZeroArr EXCEPT ![9] = "0"], digits |-> 1]
    ELSE num_loop(ZeroArr, n, 8, 0)

\* num_to_bytes under a build: the loop runs `char_pos -= 1` after every digit,
\* so the ninth digit takes char_pos (a usize) below 0: a panic where overflow
\* checks are compiled in, a wrap (to a value never read) where they are not.
num_to_bytes_build(k, n, overflow_checks) ==
    LET r == IF k = "Sheet" THEN Sheet_num_to_bytes(n) ELSE num_to_bytes(n)
    IN  [arr |-> r.arr, digits |-> r.digits,
         panic |-> overflow_checks /\ n > 0 /\ r.digits >= 9]

(***************************************************************************)
(* col_to_letter: the letters of a zero-based column index, computed once  *)
(* and appended to the cache when the cache is shorter than col + 1, then  *)
(* read back from the cache at index col.                                  *)
(***************************************************************************)
Letter(k) == <<"A", "B", "C", "D", "E", "F", "G", "H", "I", "J", "K", "L", "M",
               "N", "O", "P", "Q", "R", "S", "T", "U", "V", "W", "X", "Y", "Z">>[k + 1]

Reverse(s) == [i \in 1..Len(s) |-> s[Len(s) + 1 - i]]

\* `col as i16`
AsI16(n) == LET m == n % 65536 IN IF m >= 32768 THEN m - 65536 ELSE m

\* Rust's % and / on signed integers truncate toward zero.
TruncRem(a, b) == IF a >= 0 THEN a % b ELSE 0 - ((0 - a) % b)
TruncDiv(a, b) == IF a >= 0 THEN a \div b ELSE 0 - ((0 - a) \div b)

\* `x as u8`
AsU8(x) == x % 256

\* The bytes 40..90 of ASCII, which is where b'A' + (col % 26) as u8 lands for
\* every i16: 'A'..'Z' for col >= 0, and '('..'@' after the u8 sum wraps.
Chr(code) ==
    <<"(", ")", "*", "+", ",", "-", ".", "/", "0", "1", "2", "3", "4", "5", "6", "7",
      "8", "9", ":", ";", "<", "=", ">", "?", "@", "A", "B", "C", "D", "E", "F", "G",
      "H", "I", "J", "K", "L", "M", "N", "O", "P", "Q", "R", "S", "T", "U", "V", "W",
      "X", "Y", "Z">>[code - 39]

\* The loop of col_to_letter on the i16 col, the u8 sum wrapping.
RECURSIVE letter_loop(_, _)
letter_loop(result, col) ==
    LET pushed == Append(result, Chr((65 + AsU8(TruncRem(col, 26))) % 256))
        next == TruncDiv(col, 26) - 1
    IN  IF next < 0 THEN pushed ELSE letter_loop(pushed, next)

\* Whether b'A' + (col % 26) as u8 exceeds u8 in some iteration: a panic where
\* overflow checks are compiled in (debug builds), a wrap where they are not.
RECURSIVE letter_overflow(_)
letter_overflow(col) ==
    \/ 65 + AsU8(TruncRem(col, 26)) > 255
    \/ (TruncDiv(col, 26) - 1 >= 0 /\ letter_overflow(TruncDiv(col, 26) - 1))

\* The entry col_to_letter pushes for col: the letters, or a panic.
col_letters(col, overflow_checks) ==
    IF overflow_checks /\ letter_overflow(AsI16(col))
    THEN [panic |-> TRUE, value |-> <<>>]
    ELSE [panic |-> FALSE, value |-> Reverse(letter_loop(<<>>, AsI16(col)))]

\* The cache after the call, the slice returned, and whether the final index
\* self.col_num_to_letter[col] is out of bounds (a panic).
\* Mutant of col_to_letter: the length test is <= for <.
col_to_letter_grows_on_last(cache, col) ==
    LET grown == IF Len(cache) <= col + 1
                 THEN Append(cache, Reverse(letter_loop(<<>>, AsI16(col))))
                 ELSE cache
    IN  IF col + 1 <= Len(grown)
        THEN [cache |-> grown, letter |-> grown[col + 1], panic |-> FALSE]
        ELSE [cache |-> grown, letter |-> <<>>, panic |-> TRUE]

col_to_letter(cache, col) ==
    LET grown == IF Len(cache) < col + 1
                 THEN Append(cache, Reverse(letter_loop(<<>>, AsI16(col))))
                 ELSE cache
    IN  IF col + 1 <= Len(grown)
        THEN [cache |-> grown, letter |-> grown[col + 1], panic |-> FALSE]
        ELSE [cache |-> grown, letter |-> <<>>, panic |-> TRUE]

(***************************************************************************)
(* ref_id: the cell reference, column letters then the row's digit slice.  *)
(***************************************************************************)
ref_id(cache, col, row) ==
    LET lookup == col_to_letter(cache, col)
        digits == [i \in 1..row.digits |-> row.arr[(8 - row.digits) + (i - 1) + 1 + 1]]
    IN  [cache |-> lookup.cache, ref |-> lookup.letter \o digits, panic |-> lookup.panic]

(***************************************************************************)
(* escape_in_place: the replacements of the reserved bytes of a cell and   *)
(* their zero-based positions; splice is write_row's loop that copies the  *)
(* bytes between the positions and the replacement at each position.       *)
(***************************************************************************)
Reserved == {"<", ">", "'", "&", "\""}

Replacement(b) ==
    CASE b = "<" -> <<"&", "l", "t", ";">>
      [] b = ">" -> <<"&", "g", "t", ";">>
      [] b = "'" -> <<"&", "a", "p", "o", "s", ";">>
      [] b = "&" -> <<"&", "a", "m", "p", ";">>
      [] b = "\"" -> <<"&", "q", "u", "o", "t", ";">>

RECURSIVE escape_loop(_, _, _, _)
escape_loop(bytes, x, special_chars, special_char_pos) ==
    IF x >= Len(bytes)
    THEN [chars |-> special_chars, pos |-> special_char_pos]
    ELSE IF bytes[x + 1] \in Reserved
         THEN escape_loop(bytes, x + 1, Append(special_chars, Replacement(bytes[x + 1])),
                          Append(special_char_pos, x))
         ELSE escape_loop(bytes, x + 1, special_chars, special_char_pos)

escape_in_place(bytes) == escape_loop(bytes, 0, <<>>, <<>>)

\* Mutant of splice_loop: current_pos is not moved past the reserved byte.
RECURSIVE splice_loop_keeps_reserved(_, _, _, _, _)
splice_loop_keeps_reserved(datum, chars, chars_pos, current_pos, out) ==
    IF chars_pos = <<>>
    THEN out \o SubSeq(datum, current_pos + 1, Len(datum))
    ELSE splice_loop_keeps_reserved(datum, Tail(chars), Tail(chars_pos), Head(chars_pos),
                     out \o SubSeq(datum, current_pos + 1, Head(chars_pos)) \o Head(chars))

RECURSIVE splice_loop(_, _, _, _, _)
splice_loop(datum, chars, chars_pos, current_pos, out) ==
    IF chars_pos = <<>>
    THEN out \o SubSeq(datum, current_pos + 1, Len(datum))
    ELSE splice_loop(datum, Tail(chars), Tail(chars_pos), Head(chars_pos) + 1,
                     out \o SubSeq(datum, current_pos + 1, Head(chars_pos)) \o Head(chars))

escaped(datum) ==
    LET e == escape_in_place(datum) IN splice_loop(datum, e.chars, e.pos, 0, <<>>)

(***************************************************************************)
(* write_row: the t attribute of a cell and the row element assembled in   *)
(* final_vec.                                                              *)
(***************************************************************************)
\* Mutant of col_type: the fallback is the inline-string tag.
col_type_str_fallback(types, col) == IF col < Len(types) THEN types[col + 1] ELSE "str"

\* typed_sheet.rs: *types.get(col).unwrap_or(&"s")
col_type(types, col) == IF col < Len(types) THEN types[col + 1] ELSE "s"

\* Mutant of Typed_cell_type: no branch for the first row.
Typed_cell_type_no_header(row_num, types, col) == col_type(types, col)

\* typed_sheet.rs: the branch on current_row_num == 1
Typed_cell_type(row_num, types, col) ==
    IF row_num = 1 THEN "str" ELSE col_type(types, col)

\* Mutant of Sheet_cell_type: the untyped writer tags its cells as shared strings.
Sheet_cell_type_shared(row_num, types, col) == "s"

\* sheet.rs: every cell is written with t="str"
Sheet_cell_type(row_num, types, col) == "str"

cell_type(k, row_num, types, col) ==
    IF k = "Sheet" THEN Sheet_cell_type(row_num, types, col)
    ELSE Typed_cell_type(row_num, types, col)

\* Mutant of cells_loop: a cell holding a reserved byte is tagged "str".
RECURSIVE cells_loop_tag_by_content(_, _, _, _, _, _, _)
cells_loop_tag_by_content(k, cache, data, types, row_num, row, cells) ==
    LET col == Len(cells) IN
    IF col >= Len(data)
    THEN [cache |-> cache, cells |-> cells]
    ELSE LET id == ref_id(cache, col, row)
             c == [r |-> id.ref,
                   t |-> IF escape_in_place(data[col + 1]).chars # <<>> THEN "str"
                         ELSE cell_type(k, row_num, types, col),
                   v |-> escaped(data[col + 1])]
         IN  cells_loop_tag_by_content(k, id.cache, data, types, row_num, row, Append(cells, c))

RECURSIVE cells_loop(_, _, _, _, _, _, _)
cells_loop(k, cache, data, types, row_num, row, cells) ==
    LET col == Len(cells) IN
    IF col >= Len(data)
    THEN [cache |-> cache, cells |-> cells]
    ELSE LET id == ref_id(cache, col, row)
             c == [r |-> id.ref, t |-> cell_type(k, row_num, types, col),
                   v |-> escaped(data[col + 1])]
         IN  cells_loop(k, id.cache, data, types, row_num, row, Append(cells, c))

\* Whether a lookup of write_row's loop over the cells, from column col on,
\* indexes outside the cache.
RECURSIVE cells_lookup_panics(_, _, _)
cells_lookup_panics(cache, data, col) ==
    /\ col < Len(data)
    /\ \/ col_to_letter(cache, col).panic
       \/ cells_lookup_panics(col_to_letter(cache, col).cache, data, col + 1)

row_digits(k, n) == IF k = "Sheet" THEN Sheet_num_to_bytes(n) ELSE num_to_bytes(n)

\* Mutant of write_row: the row is numbered before the counter is incremented.
write_row_number_first(k, cache, row_num, data, types) ==
    LET n == row_num + 1
        row == row_digits(k, row_num)
        body == cells_loop(k, cache, data, types, n, row, <<>>)
    IN  [current_row_num |-> n,
         col_num_to_letter |-> body.cache,
         element |-> [el |-> "row", r |-> SubSeq(row.arr, 9 - row.digits + 1, 9),
                      cells |-> body.cells]]

\* The state write_row leaves and the row element it hands to the sink.
write_row(k, cache, row_num, data, types) ==
    LET n == row_num + 1
        row == row_digits(k, n)
        body == cells_loop(k, cache, data, types, n, row, <<>>)
    IN  [current_row_num |-> n,
         col_num_to_letter |-> body.cache,
         element |-> [el |-> "row", r |-> SubSeq(row.arr, 9 - row.digits + 1, 9),
                      cells |-> body.cells]]

(***************************************************************************)
(* write_sheet_views and init_sheet. The typed writer sets                 *)
(* sheet_data_started in init_sheet, the untyped writer in                 *)
(* write_sheet_views.                                                      *)
(***************************************************************************)
Typed_write_sheet_views(started, snk) ==
    IF started
    THEN [sink |-> snk, sheet_data_started |-> started]
    ELSE [sink |-> Append(snk, SheetViews), sheet_data_started |-> started]

Sheet_write_sheet_views(started, snk) ==
    IF started
    THEN [sink |-> snk, sheet_data_started |-> started]
    ELSE [sink |-> Append(snk, SheetViews), sheet_data_started |-> TRUE]

Typed_init_sheet(freeze, started, snk) ==
    LET views == IF freeze THEN Typed_write_sheet_views(started, snk)
                 ELSE [sink |-> snk, sheet_data_started |-> started]
    IN  [sink |-> Append(views.sink, SheetDataOpen), sheet_data_started |-> TRUE]

Sheet_init_sheet(freeze, started, snk) ==
    LET views == IF freeze THEN Sheet_write_sheet_views(started, snk)
                 ELSE [sink |-> snk, sheet_data_started |-> started]
    IN  [sink |-> Append(views.sink, SheetDataOpen),
         sheet_data_started |-> views.sheet_data_started]

init_sheet(k, freeze, started, snk) ==
    IF k = "Sheet" THEN Sheet_init_sheet(freeze, started, snk)
    ELSE Typed_init_sheet(freeze, started, snk)

(***************************************************************************)
(* close: the same code in both writers.                                   *)
(***************************************************************************)
\* Mutant of auto_filter_range: the column count is used as the last index.
auto_filter_range_off_by_one(cache) ==
    LET num_columns == Len(cache)
    IN  <<"A", "1", ":">> \o col_to_letter(cache, num_columns).letter \o <<"1">>

auto_filter_range(cache) ==
    LET num_columns == Len(cache)
    IN  <<"A", "1", ":">> \o col_to_letter(cache, num_columns - 1).letter \o <<"1">>

\* Mutant of close: the filter element is written inside the data section.
close_filter_first(auto_filter, cache, snk) ==
    LET filtered == IF auto_filter /\ Len(cache) > 0
                    THEN Append(snk, AutoFilter(auto_filter_range(cache)))
                    ELSE snk
    IN  Append(Append(filtered, SheetDataClose), WorksheetClose)

\* Mutant of close: the filter element is written whether or not a column exists.
close_filter_without_columns(auto_filter, cache, snk) ==
    LET closed == Append(snk, SheetDataClose)
        filtered == IF auto_filter
                    THEN Append(closed, AutoFilter(IF Len(cache) > 0 THEN auto_filter_range(cache)
                                                   ELSE <<"A", "1", ":", "A", "1">>))
                    ELSE closed
    IN  Append(filtered, WorksheetClose)

close(auto_filter, cache, snk) ==
    LET closed == Append(snk, SheetDataClose)
        filtered == IF auto_filter /\ Len(cache) > 0
                    THEN Append(closed, AutoFilter(auto_filter_range(cache)))
                    ELSE closed
    IN  Append(filtered, WorksheetClose)

\* Whether close's lookup of the last column indexes outside the cache.
close_lookup_panics(auto_filter, cache) ==
    auto_filter /\ Len(cache) > 0 /\ col_to_letter(cache, Len(cache) - 1).panic

(***************************************************************************)
(* The state machine: new, then any calls in any order (neither writer     *)
(* rejects a call). Under Spec the sink accepts every write, as the        *)
(* in-memory Cursor<Vec<u8>> of the callers does, so every call returns    *)
(* Ok(()). MaxCalls bounds the calls that write to the sink.               *)
(* phase follows the documented order Configured -> Writing -> Closed and  *)
(* is Invalid once a call is made out of that order.                       *)
(***************************************************************************)
NoArgs == [data |-> <<>>, types |-> <<>>]

Calls == count.init_sheet + count.write_row + count.close

\* Sheet::new / TypedSheet::new: the entry is opened and the preamble written,
\* both results discarded with .ok().
Init ==
    /\ kind \in {"Sheet", "TypedSheet"}
    /\ col_num_to_letter = <<>>
    /\ current_row_num = 0
    /\ has_auto_filter = FALSE
    /\ sheet_data_started = FALSE
    /\ freeze_top_row = FALSE
    /\ sink = <<WorksheetOpen>>
    /\ last = [op |-> "new", args |-> NoArgs, result |-> "ok"]
    /\ count = [init_sheet |-> 0, write_row |-> 0, close |-> 0]
    /\ phase = "Configured"

FreezeTopRow ==
    /\ freeze_top_row' = TRUE
    /\ last' = [op |-> "freeze_top_row", args |-> NoArgs, result |-> "ok"]
    /\ phase' = IF phase = "Configured" THEN "Configured" ELSE "Invalid"
    /\ UNCHANGED <<kind, col_num_to_letter, current_row_num, has_auto_filter,
                   sheet_data_started, sink, count>>

AddAutoFilter ==
    /\ has_auto_filter' = TRUE
    /\ last' = [op |-> "add_auto_filter", args |-> NoArgs, result |-> "ok"]
    /\ phase' = IF phase = "Configured" THEN "Configured" ELSE "Invalid"
    /\ UNCHANGED <<kind, col_num_to_letter, current_row_num, freeze_top_row,
                   sheet_data_started, sink, count>>

InitSheet ==
    /\ Calls < MaxCalls
    /\ LET r == init_sheet(kind, freeze_top_row, sheet_data_started, sink)
       IN  /\ sink' = r.sink
           /\ sheet_data_started' = r.sheet_data_started
    /\ last' = [op |-> "init_sheet", args |-> NoArgs, result |-> "ok"]
    /\ count' = [count EXCEPT !.init_sheet = @ + 1]
    /\ phase' = IF phase = "Configured" THEN "Writing" ELSE "Invalid"
    /\ UNCHANGED <<kind, col_num_to_letter, current_row_num, has_auto_filter,
                   freeze_top_row>>

WriteRow ==
    /\ Calls < MaxCalls
    /\ \E data \in Rows, types \in TypeLists :
          LET r == write_row(kind, col_num_to_letter, current_row_num, data, types)
          IN  /\ current_row_num' = r.current_row_num
              /\ col_num_to_letter' = r.col_num_to_letter
              /\ sink' = Append(sink, r.element)
              /\ last' = [op |-> "write_row", args |-> [data |-> data, types |-> types],
                          result |-> "ok"]
    /\ count' = [count EXCEPT !.write_row = @ + 1]
    /\ phase' = IF phase = "Writing" THEN "Writing" ELSE "Invalid"
    /\ UNCHANGED <<kind, has_auto_filter, sheet_data_started, freeze_top_row>>

Close ==
    /\ Calls < MaxCalls
    /\ sink' = close(has_auto_filter, col_num_to_letter, sink)
    /\ last' = [op |-> "close", args |-> NoArgs, result |-> "ok"]
    /\ count' = [count EXCEPT !.close = @ + 1]
    /\ phase' = IF phase = "Writing" THEN "Closed" ELSE "Invalid"
    /\ UNCHANGED <<kind, col_num_to_letter, current_row_num, has_auto_filter,
                   sheet_data_started, freeze_top_row>>

Next == FreezeTopRow \/ AddAutoFilter \/ InitSheet \/ WriteRow \/ Close

Spec == Init /\ [][Next]_vars

TypeOK ==
    /\ kind \in {"Sheet", "TypedSheet"}
    /\ current_row_num \in 0..MaxCalls
    /\ Len(col_num_to_letter) <= MaxCols

(***************************************************************************)
(* What the claims are stated with.                                        *)
(***************************************************************************)
\* The row elements of the sink, in the order they were written.
RowElements(snk) == SelectSeq(snk, LAMBDA e : e.el = "row")

\* The element the last call appended last.
LastElement == sink[Len(sink)]

\* The standard decimal representation of n, no leading zeros.
RECURSIVE Decimal(_)
Decimal(n) == IF n < 10 THEN <<Digit(n)>> ELSE Decimal(n \div 10) \o <<Digit(n % 10)>>

\* C1: the row counter starts at 0 and equals the number of write_row calls; the
\* k-th write_row call emits a row element with r = k, so after n calls the sink
\* holds n row elements numbered 1, 2, ..., n in that order.
C1_RowNumbers ==
    LET rows == RowElements(sink) IN
    /\ current_row_num = count.write_row
    /\ Len(rows) = count.write_row
    /\ \A k \in 1..Len(rows) : rows[k].r = Decimal(k)
    /\ last.op = "write_row" => LastElement.el = "row" /\ LastElement.r = Decimal(count.write_row)

C1_Witness ==
    /\ count.write_row = 3
    /\ Len(RowElements(sink)) = 3
    /\ RowElements(sink)[3].r = <<"3">>
    /\ last.op = "write_row"

\* C2: in TypedSheet.write_row every cell of the first row written carries
\* t="str", whatever types list was supplied.
C2_FirstRowIsString ==
    (kind = "TypedSheet" /\ last.op = "write_row" /\ count.write_row = 1) =>
        /\ LastElement.el = "row"
        /\ Len(LastElement.cells) = Len(last.args.data)
        /\ \A c \in 1..Len(LastElement.cells) : LastElement.cells[c].t = "str"

C2_Witness ==
    /\ kind = "TypedSheet" /\ last.op = "write_row" /\ count.write_row = 1
    /\ last.args.types = <<TYPE_DATE, TYPE_STRING>>
    /\ Len(LastElement.cells) = 2
    /\ LastElement.cells[1].t = "str"

\* C3: in TypedSheet.write_row, from the second row on, the cell of column c
\* carries types[c] when c < len(types) and the shared-string tag "s" otherwise.
C3_LaterRowsUseTypes ==
    (kind = "TypedSheet" /\ last.op = "write_row" /\ count.write_row >= 2) =>
        /\ LastElement.el = "row"
        /\ Len(LastElement.cells) = Len(last.args.data)
        /\ \A c \in 0..(Len(last.args.data) - 1) :
              LastElement.cells[c + 1].t =
                  IF c < Len(last.args.types) THEN last.args.types[c + 1] ELSE "s"

C3_Witness ==
    /\ kind = "TypedSheet" /\ last.op = "write_row" /\ count.write_row = 2
    /\ last.args.types = <<TYPE_NUMBER>>
    /\ Len(LastElement.cells) = 2
    /\ LastElement.cells[1].t = "n"
    /\ LastElement.cells[2].t = "s"

\* C4: every cell in the sink carries a t attribute among "str", "n", "d": with
\* types lists made of the exported tags, no shared-string cell is emitted.
C4_OnlyExportedTags ==
    \A i \in 1..Len(sink) :
        sink[i].el = "row" =>
            \A c \in 1..Len(sink[i].cells) :
                sink[i].cells[c].t \in {TYPE_STRING, TYPE_NUMBER, TYPE_DATE}

\* The widest row written so far.
RECURSIVE MaxWidth(_)
MaxWidth(rows) ==
    IF rows = <<>> THEN 0
    ELSE LET rest == MaxWidth(Tail(rows))
         IN  IF Len(Head(rows).cells) > rest THEN Len(Head(rows).cells) ELSE rest

\* The bijective base-26 letters of a zero-based column index.
RECURSIVE ColumnLetters(_)
ColumnLetters(c) ==
    IF c < 26 THEN <<Letter(c)>> ELSE ColumnLetters((c \div 26) - 1) \o <<Letter(c % 26)>>

\* C5: after a run in the documented order (new; optional freeze_top_row and
\* add_auto_filter; one init_sheet; write_row calls; one close) the sink holds the
\* preamble, the sheetViews block if requested, the sheetData open tag, one row
\* element per write_row call, the sheetData close tag, the autoFilter element if
\* requested and a column was written, and the worksheet close tag, nothing else.
C5_DocumentLayout ==
    phase = "Closed" =>
        LET rows == RowElements(sink)
            filters == SelectSeq(sink, LAMBDA e : e.el = "autoFilter")
        IN  /\ Len(rows) = count.write_row
            /\ Len(filters) = IF has_auto_filter /\ MaxWidth(rows) > 0 THEN 1 ELSE 0
            /\ sink = <<WorksheetOpen>>
                      \o (IF freeze_top_row THEN <<SheetViews>> ELSE <<>>)
                      \o <<SheetDataOpen>>
                      \o rows
                      \o <<SheetDataClose>>
                      \o filters
                      \o <<WorksheetClose>>

C5_Witness ==
    /\ phase = "Closed"
    /\ freeze_top_row /\ has_auto_filter
    /\ count.write_row = 1
    /\ Len(sink) = 7
    /\ sink[6].el = "autoFilter"

\* C6: once the sheetData open tag is in the sink, no sheetViews block is
\* written after it, for both writers and every sequence of calls.
C6_NoViewsAfterData ==
    \A i \in 1..Len(sink) : \A j \in 1..Len(sink) :
        (i < j /\ sink[i].el = "sheetData") => sink[j].el # "sheetViews"

\* C7: init_sheet appends the sheetViews block then the sheetData open tag when
\* the freeze flag is set at the call, and the sheetData open tag alone when it
\* is not set.
C7_InitEmitsViewsIffFrozen ==
    [][last'.op = "init_sheet" =>
          sink' = sink \o (IF freeze_top_row THEN <<SheetViews>> ELSE <<>>)
                       \o <<SheetDataOpen>>]_vars

\* C8: with the auto-filter flag set and at least one cell written, close
\* appends the sheetData close tag, exactly one autoFilter element with ref
\* "A1:<L>1", <L> the letters of the highest column index any row has referenced,
\* and the worksheet close tag.
C8_FilterRange ==
    [][(last'.op = "close" /\ has_auto_filter /\ MaxWidth(RowElements(sink)) > 0) =>
          sink' = sink \o <<SheetDataClose,
                             AutoFilter(<<"A", "1", ":">>
                                        \o ColumnLetters(MaxWidth(RowElements(sink)) - 1)
                                        \o <<"1">>),
                             WorksheetClose>>]_vars

C8_Witness ==
    /\ last.op = "close" /\ has_auto_filter
    /\ Len(RowElements(sink)) = 2
    /\ Len(RowElements(sink)[1].cells) = 1
    /\ Len(RowElements(sink)[2].cells) = 2
    /\ sink[Len(sink) - 1] = AutoFilter(<<"A", "1", ":", "B", "1">>)

\* C9: a second init_sheet call returns an error and writes nothing to the sink.
C9_SecondInitFails ==
    [][(last'.op = "init_sheet" /\ count.init_sheet >= 1) =>
          (last'.result = "err" /\ sink' = sink)]_vars

\* C10: a write_row call made after close returns an error and leaves the sink
\* as it was after close.
C10_WriteAfterCloseFails ==
    [][(last'.op = "write_row" /\ count.close >= 1) =>
          (last'.result = "err" /\ sink' = sink)]_vars

\* C11: a worksheet is closed once: a second close call returns an error and
\* writes nothing, so the sink never holds two sheetData close tags or two
\* worksheet close tags.
C11_SecondCloseFails ==
    [][(last'.op = "close" /\ count.close >= 1) =>
          (last'.result = "err" /\ sink' = sink)]_vars

\* The sink after a continuation of write_row calls followed by close.
RECURSIVE Continuation(_, _, _, _, _, _)
Continuation(k, cache, row_num, auto_filter, snk, calls) ==
    IF calls = <<>>
    THEN close(auto_filter, cache, snk)
    ELSE LET r == write_row(k, cache, row_num, Head(calls).data, Head(calls).types)
         IN  Continuation(k, r.col_num_to_letter, r.current_row_num, auto_filter,
                          Append(snk, r.element), Tail(calls))

\* The continuations compared: close alone, or one write_row call and close.
Continuations ==
    {<<>>} \cup { <<[data |-> d, types |-> t]>> : d \in Rows, t \in TypeLists }

\* C12: freeze_top_row and add_auto_filter called after init_sheet have no
\* observable effect: every continuation of write_row calls followed by close
\* leaves the same sink with the late call as without it.
C12_LateFlagsNoEffect ==
    [][(last'.op \in {"freeze_top_row", "add_auto_filter"} /\ count.init_sheet >= 1) =>
          \A c \in Continuations :
              Continuation(kind, col_num_to_letter', current_row_num', has_auto_filter',
                           sink', c)
              = Continuation(kind, col_num_to_letter, current_row_num, has_auto_filter,
                             sink, c)]_vars

(***************************************************************************)
(* The writers over a sink that may refuse or shorten a write.             *)
(* std::io::Write::write returns Err (no byte was written), or Ok(n) with  *)
(* n the number of bytes taken, which may be less than the buffer. Every   *)
(* call site is `self.sheet_buf.write(..)?`: Err returns from the method,  *)
(* n is never read. MaxFaults bounds the writes that are not taken whole.  *)
(***************************************************************************)
MaxFaults == 1

Outcomes == {"ok", "short", "err"}

\* What a short write leaves in the sink: a non-empty strict prefix of the bytes.
Prefix(element) == [el |-> "prefix", of |-> element]

\* One call of sheet_buf.write.
sink_write(snk, element, outcome) ==
    CASE outcome = "ok" -> [sink |-> Append(snk, element), ok |-> TRUE, faults |-> 0]
      [] outcome = "short" -> [sink |-> Append(snk, Prefix(element)), ok |-> TRUE, faults |-> 1]
      [] outcome = "err" -> [sink |-> snk, ok |-> FALSE, faults |-> 1]

\* new: start_file(..).ok() then write(..).ok(); with no entry open the
\* ZipWriter takes no bytes. new returns the worksheet whatever happened.
new_io(open, outcome) ==
    IF open = "err"
    THEN [sink |-> <<>>, result |-> "ok", sink_error |-> TRUE, faults |-> 1]
    ELSE LET w == sink_write(<<>>, WorksheetOpen, outcome)
         IN  [sink |-> w.sink, result |-> "ok", sink_error |-> ~w.ok, faults |-> w.faults]

\* init_sheet: o1 is the outcome of the sheetViews write (when it is made), o2
\* of the sheetData write.
init_sheet_io(k, freeze, started, snk, o1, o2) ==
    LET writes_views == freeze /\ ~started
        w1 == IF writes_views THEN sink_write(snk, SheetViews, o1)
              ELSE [sink |-> snk, ok |-> TRUE, faults |-> 0]
        started1 == IF writes_views /\ w1.ok /\ k = "Sheet" THEN TRUE ELSE started
        w2 == sink_write(w1.sink, SheetDataOpen, o2)
    IN  IF ~w1.ok
        THEN [sink |-> w1.sink, sheet_data_started |-> started, result |-> "err",
              sink_error |-> TRUE, faults |-> w1.faults]
        ELSE IF ~w2.ok
        THEN [sink |-> w2.sink, sheet_data_started |-> started1, result |-> "err",
              sink_error |-> TRUE, faults |-> w1.faults + w2.faults]
        ELSE [sink |-> w2.sink,
              sheet_data_started |-> IF k = "Sheet" THEN started1 ELSE TRUE,
              result |-> "ok", sink_error |-> FALSE, faults |-> w1.faults + w2.faults]

\* write_row: the counter and the cache are updated while final_vec is built,
\* then final_vec is handed to the sink in one write.
write_row_io(k, cache, row_num, snk, data, types, outcome) ==
    LET r == write_row(k, cache, row_num, data, types)
        w == sink_write(snk, r.element, outcome)
    IN  [current_row_num |-> r.current_row_num, col_num_to_letter |-> r.col_num_to_letter,
         sink |-> w.sink, result |-> IF w.ok THEN "ok" ELSE "err",
         sink_error |-> ~w.ok, faults |-> w.faults]

\* close: o1, o2, o3 are the outcomes of the </sheetData>, autoFilter (when it
\* is made) and </worksheet> writes.
close_io(auto_filter, cache, snk, o1, o2, o3) ==
    LET w1 == sink_write(snk, SheetDataClose, o1)
        w2 == IF auto_filter /\ Len(cache) > 0
              THEN sink_write(w1.sink, AutoFilter(auto_filter_range(cache)), o2)
              ELSE [sink |-> w1.sink, ok |-> TRUE, faults |-> 0]
        w3 == sink_write(w2.sink, WorksheetClose, o3)
    IN  IF ~w1.ok
        THEN [sink |-> w1.sink, result |-> "err", sink_error |-> TRUE, faults |-> w1.faults]
        ELSE IF ~w2.ok
        THEN [sink |-> w2.sink, result |-> "err", sink_error |-> TRUE,
              faults |-> w1.faults + w2.faults]
        ELSE [sink |-> w3.sink, result |-> IF w3.ok THEN "ok" ELSE "err",
              sink_error |-> ~w3.ok, faults |-> w1.faults + w2.faults + w3.faults]

InitFaulty ==
    /\ kind \in {"Sheet", "TypedSheet"}
    /\ col_num_to_letter = <<>>
    /\ current_row_num = 0
    /\ has_auto_filter = FALSE
    /\ sheet_data_started = FALSE
    /\ freeze_top_row = FALSE
    /\ \E open \in {"ok", "err"}, o \in Outcomes :
          LET r == new_io(open, o)
          IN  /\ r.faults <= MaxFaults
              /\ sink = r.sink
              /\ last = [op |-> "new", args |-> NoArgs, result |-> r.result,
                         sink_error |-> r.sink_error]
              /\ count = [init_sheet |-> 0, write_row |-> 0, close |-> 0,
                          faults |-> r.faults]
    /\ phase = "Configured"

InitSheetFaulty ==
    /\ Calls < MaxCalls
    /\ \E o1 \in Outcomes, o2 \in Outcomes :
          LET r == init_sheet_io(kind, freeze_top_row, sheet_data_started, sink, o1, o2)
          IN  /\ count.faults + r.faults <= MaxFaults
              /\ sink' = r.sink
              /\ sheet_data_started' = r.sheet_data_started
              /\ last' = [op |-> "init_sheet", args |-> NoArgs, result |-> r.result,
                          sink_error |-> r.sink_error]
              /\ count' = [count EXCEPT !.init_sheet = @ + 1, !.faults = @ + r.faults]
    /\ phase' = IF phase = "Configured" THEN "Writing" ELSE "Invalid"
    /\ UNCHANGED <<kind, col_num_to_letter, current_row_num, has_auto_filter,
                   freeze_top_row>>

WriteRowFaulty ==
    /\ Calls < MaxCalls
    /\ \E data \in Rows, types \in TypeLists, o \in Outcomes :
          LET r == write_row_io(kind, col_num_to_letter, current_row_num, sink,
                                data, types, o)
          IN  /\ count.faults + r.faults <= MaxFaults
              /\ current_row_num' = r.current_row_num
              /\ col_num_to_letter' = r.col_num_to_letter
              /\ sink' = r.sink
              /\ last' = [op |-> "write_row", args |-> [data |-> data, types |-> types],
                          result |-> r.result, sink_error |-> r.sink_error]
              /\ count' = [count EXCEPT !.write_row = @ + 1, !.faults = @ + r.faults]
    /\ phase' = IF phase = "Writing" THEN "Writing" ELSE "Invalid"
    /\ UNCHANGED <<kind, has_auto_filter, sheet_data_started, freeze_top_row>>

CloseFaulty ==
    /\ Calls < MaxCalls
    /\ \E o1 \in Outcomes, o2 \in Outcomes, o3 \in Outcomes :
          LET r == close_io(has_auto_filter, col_num_to_letter, sink, o1, o2, o3)
          IN  /\ count.faults + r.faults <= MaxFaults
              /\ sink' = r.sink
              /\ last' = [op |-> "close", args |-> NoArgs, result |-> r.result,
                          sink_error |-> r.sink_error]
              /\ count' = [count EXCEPT !.close = @ + 1, !.faults = @ + r.faults]
    /\ phase' = IF phase = "Writing" THEN "Closed" ELSE "Invalid"
    /\ UNCHANGED <<kind, col_num_to_letter, current_row_num, has_auto_filter,
                   sheet_data_started, freeze_top_row>>

NextFaulty ==
    FreezeTopRow \/ AddAutoFilter \/ InitSheetFaulty \/ WriteRowFaulty \/ CloseFaulty

SpecFaulty == InitFaulty /\ [][NextFaulty]_vars

\* The calls that write to the sink.
SinkOps == {"new", "init_sheet", "write_row", "close"}

\* C13: whenever a sink write fails inside new, init_sheet, write_row or close,
\* that operation does not complete as a success.
C13_SinkFailureReported ==
    (last.op \in SinkOps /\ last.sink_error) => last.result = "err"

\* C14: write_row is atomic with respect to the sink: after any write_row call
\* the sink holds none of the row's bytes or the complete row element, never a
\* prefix of it.
C14_RowWriteAtomic ==
    \A i \in 1..Len(sink) : sink[i].el = "prefix" => sink[i].of.el # "row"

(***************************************************************************)
(* The encoders taken alone: each step applies one function of the writers *)
(* to an input and records the input and the outcome in last.  The         *)
(* functions keep no state between calls, so a behaviour applies one.      *)
(***************************************************************************)
MaxColIndex == 705
I16_MAX == 32767
MaxNum == 120

\* Column indices: the first ones, and the two around the end of i16.
ColIndexes == (0..MaxColIndex) \cup {I16_MAX, I16_MAX + 1}

RECURSIVE Pow10(_)
Pow10(k) == IF k = 0 THEN 1 ELSE 10 * Pow10(k - 1)

\* Row counters of 1 to 9 digits: the first ones, and those around each power of ten.
RowNumbers ==
    (1..MaxNum) \cup { Pow10(k) - 1 : k \in 1..9 } \cup { Pow10(k) : k \in 1..8 }

ColToLetterStep ==
    /\ last.op = "new"
    /\ \E c \in ColIndexes, checks \in BOOLEAN :
          LET r == col_letters(c, checks)
          IN  last' = [op |-> "col_letters", args |-> [col |-> c, overflow_checks |-> checks],
                       result |-> IF r.panic THEN "panic" ELSE "ok", out |-> r.value]
    /\ UNCHANGED <<kind, col_num_to_letter, current_row_num, has_auto_filter,
                   sheet_data_started, freeze_top_row, sink, count, phase>>

\* num_to_bytes(n), and the row write_row assembles for the row counter n.
NumToBytesStep ==
    /\ last.op = "new"
    /\ \E n \in RowNumbers, checks \in BOOLEAN :
          LET r == num_to_bytes_build(kind, n, checks)
              row == write_row(kind, <<>>, n - 1, <<Cell(1)>>, <<>>).element
          IN  last' = [op |-> "num_to_bytes", args |-> [n |-> n, overflow_checks |-> checks],
                       result |-> IF r.panic THEN "panic" ELSE "ok",
                       out |-> [arr |-> r.arr, digits |-> r.digits, r |-> row.r,
                                ref |-> row.cells[1].r]]
    /\ UNCHANGED <<kind, col_num_to_letter, current_row_num, has_auto_filter,
                   sheet_data_started, freeze_top_row, sink, count, phase>>

MaxLen == 3

\* Cell byte strings: every string of at most MaxLen bytes over the reserved
\* bytes and one ordinary byte.
ByteStrings == UNION { [1..n -> Reserved \cup {"a"}] : n \in 0..MaxLen }

\* write_row on a one-cell row: the bytes between <v> and </v>.
EscapeStep ==
    /\ last.op = "new"
    /\ \E datum \in ByteStrings :
          LET row == write_row(kind, <<>>, 0, <<datum>>, <<>>).element
          IN  last' = [op |-> "escape", args |-> [datum |-> datum], result |-> "ok",
                       out |-> [v |-> row.cells[1].v,
                                special_chars |-> escape_in_place(datum).chars]]
    /\ UNCHANGED <<kind, col_num_to_letter, current_row_num, has_auto_filter,
                   sheet_data_started, freeze_top_row, sink, count, phase>>

MaxFields == 2

Digits == {"0", "1", "2", "3", "4", "5", "6", "7", "8", "9"}

IsDigits(s) == \A i \in 1..Len(s) : s[i] \in Digits

StripSign(s) == IF s # <<>> /\ s[1] \in {"+", "-"} THEN Tail(s) ELSE s

\* s.parse::<i64>().is_ok(): an optional sign and one or more digits, in range
\* (18 digits always are; a longer run of digits parses as f64 all the same).
parse_i64_ok(s) ==
    /\ StripSign(s) # <<>>
    /\ IsDigits(StripSign(s))
    /\ Len(StripSign(s)) <= 18

Lower(c) ==
    CASE c = "I" -> "i" [] c = "N" -> "n" [] c = "F" -> "f"
      [] c = "T" -> "t" [] c = "Y" -> "y" [] c = "A" -> "a" [] OTHER -> c

\* Digits with at most one point among them, and at least one digit.
Mantissa(m) ==
    /\ \A i \in 1..Len(m) : m[i] \in Digits \cup {"."}
    /\ Cardinality({ i \in 1..Len(m) : m[i] = "." }) <= 1
    /\ \E i \in 1..Len(m) : m[i] \in Digits

\* s.parse::<f64>().is_ok(): an optional sign, then inf, infinity or nan in any
\* case, or a mantissa with an optional exponent (e, optional sign, digits).
parse_f64_ok(s) ==
    LET d == StripSign(s)
        low == [i \in 1..Len(d) |-> Lower(d[i])]
        es == { i \in 1..Len(d) : d[i] \in {"e", "E"} }
        e == CHOOSE i \in es : \A j \in es : i <= j
    IN  \/ low \in { <<"i", "n", "f">>, <<"i", "n", "f", "i", "n", "i", "t", "y">>,
                      <<"n", "a", "n">> }
        \/ /\ es = {}
           /\ Mantissa(d)
        \/ /\ es # {}
           /\ Mantissa(SubSeq(d, 1, e - 1))
           /\ StripSign(SubSeq(d, e + 1, Len(d))) # <<>>
           /\ IsDigits(StripSign(SubSeq(d, e + 1, Len(d))))

\* The three format strings: separator, order of the fields, and whether the
\* format has any time field (%H, %M, ...).
FMT_YMD == [sep |-> "-", order |-> <<"Y", "m", "d">>, time |-> FALSE]
FMT_MDY == [sep |-> "/", order |-> <<"m", "d", "Y">>, time |-> FALSE]
FMT_DMY == [sep |-> "/", order |-> <<"d", "m", "Y">>, time |-> FALSE]

RECURSIVE ToNat(_)
ToNat(ds) ==
    IF ds = <<>> THEN 0
    ELSE 10 * ToNat(SubSeq(ds, 1, Len(ds) - 1))
         + (CHOOSE k \in 0..9 : Digit(k) = ds[Len(ds)])

DaysInMonth(y, m) ==
    IF m = 2 THEN (IF (y % 4 = 0 /\ y % 100 # 0) \/ y % 400 = 0 THEN 29 ELSE 28)
    ELSE IF m \in {4, 6, 9, 11} THEN 30 ELSE 31

\* Whether s reads as a calendar date in the format: three runs of digits around
\* two separators (year of any length, month and day of one or two digits),
\* naming a day that exists.
date_matches(s, fmt) ==
    LET seps == { i \in 1..Len(s) : s[i] = fmt.sep }
        p1 == CHOOSE i \in seps : \A j \in seps : i <= j
        p2 == CHOOSE i \in seps : \A j \in seps : j <= i
        part == << SubSeq(s, 1, p1 - 1), SubSeq(s, p1 + 1, p2 - 1), SubSeq(s, p2 + 1, Len(s)) >>
        at(f) == part[CHOOSE i \in 1..3 : fmt.order[i] = f]
    IN  /\ Cardinality(seps) = 2
        /\ \A i \in 1..3 : part[i] # <<>> /\ IsDigits(part[i])
        /\ Len(at("m")) <= 2
        /\ Len(at("d")) <= 2
        /\ ToNat(at("m")) \in 1..12
        /\ ToNat(at("d")) \in 1..DaysInMonth(ToNat(at("Y")), ToNat(at("m")))

\* NaiveDateTime::parse_from_str(s, fmt).is_ok(): the text is read by the format
\* and the fields read make a date and a time of day; a format without time
\* fields leaves the time unset and the result is Err(NotEnough).
naive_datetime_parse_ok(s, fmt) == date_matches(s, fmt) /\ fmt.time

infer_type(field) ==
    IF parse_i64_ok(field) THEN TYPE_NUMBER
    ELSE IF parse_f64_ok(field) THEN TYPE_NUMBER
    ELSE IF naive_datetime_parse_ok(field, FMT_YMD) THEN TYPE_DATE
    ELSE IF naive_datetime_parse_ok(field, FMT_MDY) THEN TYPE_DATE
    ELSE IF naive_datetime_parse_ok(field, FMT_DMY) THEN TYPE_DATE
    ELSE TYPE_STRING

infer_row_types(data) == [i \in 1..Len(data) |-> infer_type(data[i])]

\* Fields of a first data row.
FieldSamples ==
    { <<"4", "2">>, <<"-", "7">>, <<"3", ".", "1", "4">>, <<"1", "e", "3">>,
      <<"n", "a", "n">>, <<"1", "e">>, <<>>, <<"h", "e", "l", "l", "o">>,
      <<"2", "0", "2", "4", "-", "0", "1", "-", "0", "5">>,
      <<"0", "1", "/", "0", "5", "/", "2", "0", "2", "4">>,
      <<"1", "3", "/", "0", "5", "/", "2", "0", "2", "4">>,
      <<"0", "2", "/", "3", "0", "/", "2", "0", "2", "4">> }

FieldRows == UNION { [1..n -> FieldSamples] : n \in 0..MaxFields }

InferStep ==
    /\ last.op = "new"
    /\ kind = "TypedSheet"
    /\ \E data \in FieldRows :
          last' = [op |-> "infer_row_types", args |-> [data |-> data], result |-> "ok",
                   out |-> infer_row_types(data)]
    /\ UNCHANGED <<kind, col_num_to_letter, current_row_num, has_auto_filter,
                   sheet_data_started, freeze_top_row, sink, count, phase>>

\* num_to_bytes(0): the counter value of a worksheet no row was written to.
NumToBytesZeroStep ==
    /\ last.op = "new"
    /\ \E checks \in BOOLEAN :
          LET r == num_to_bytes_build(kind, current_row_num, checks)
          IN  last' = [op |-> "num_to_bytes_0", args |-> [n |-> current_row_num, overflow_checks |-> checks],
                       result |-> IF r.panic THEN "panic" ELSE "ok",
                       out |-> [arr |-> r.arr, digits |-> r.digits]]
    /\ UNCHANGED <<kind, col_num_to_letter, current_row_num, has_auto_filter,
                   sheet_data_started, freeze_top_row, sink, count, phase>>

NextPure ==
    ColToLetterStep \/ NumToBytesStep \/ EscapeStep \/ InferStep \/ NumToBytesZeroStep

SpecPure == Init /\ [][NextPure]_vars

\* The column index a string of letters stands for in bijective base 26.
RECURSIVE Decode(_)
Decode(letters) ==
    IF Len(letters) = 1 THEN CHOOSE k \in 0..25 : Letter(k) = letters[1]
    ELSE (Decode(SubSeq(letters, 1, Len(letters) - 1)) + 1) * 26
         + (CHOOSE k \in 0..25 : Letter(k) = letters[Len(letters)])

\* C15: for every zero-based column index c the letters produced are the
\* bijective base-26 encoding of c (0 "A", 25 "Z", 26 "AA", 701 "ZZ", 702 "AAA"),
\* they are letters, and decoding them gives back c.
C15_LettersAreBijectiveBase26 ==
    last.op = "col_letters" =>
        /\ last.result = "ok"
        /\ last.out = ColumnLetters(last.args.col)
        /\ \A i \in 1..Len(last.out) : \E k \in 0..25 : last.out[i] = Letter(k)
        /\ Decode(last.out) = last.args.col

\* C17: for every row counter n of 1 to 9 digits, num_to_bytes returns the digit
\* count d of n and a buffer whose last d bytes are the decimal representation of
\* n; the row's r attribute and the cell reference's row part are those digits.
C17_DigitsAreDecimal ==
    last.op = "num_to_bytes" =>
        /\ last.result = "ok"
        /\ last.out.digits = Len(Decimal(last.args.n))
        /\ SubSeq(last.out.arr, 9 - last.out.digits + 1, 9) = Decimal(last.args.n)
        /\ last.out.r = Decimal(last.args.n)
        /\ last.out.ref = <<"A">> \o Decimal(last.args.n)

\* The substitution table as the documentation gives it.
Entity(b) ==
    IF b = "<" THEN <<"&", "l", "t", ";">>
    ELSE IF b = ">" THEN <<"&", "g", "t", ";">>
    ELSE IF b = "'" THEN <<"&", "a", "p", "o", "s", ";">>
    ELSE IF b = "&" THEN <<"&", "a", "m", "p", ";">>
    ELSE IF b = "\"" THEN <<"&", "q", "u", "o", "t", ";">>
    ELSE <<b>>

\* Every byte replaced by its entity or copied, in order.
RECURSIVE Substituted(_)
Substituted(bytes) ==
    IF bytes = <<>> THEN <<>> ELSE Entity(Head(bytes)) \o Substituted(Tail(bytes))

ReservedCount(bytes) == Cardinality({ i \in 1..Len(bytes) : bytes[i] \in {"<", ">", "'", "&", "\""} })

\* C18: the bytes between <v> and </v> are the cell's bytes with each of
\* < > ' & " replaced by its entity and every other byte copied in order: one
\* substitution per reserved byte, and the input itself when it has none.
C18_EscapeSubstitutes ==
    last.op = "escape" =>
        /\ last.out.v = Substituted(last.args.datum)
        /\ Len(last.out.special_chars) = ReservedCount(last.args.datum)
        /\ (ReservedCount(last.args.datum) = 0 => last.out.v = last.args.datum)

C18_Witness ==
    /\ last.op = "escape"
    /\ last.args.datum = <<"a", "&", "<">>
    /\ last.out.v = <<"a", "&", "a", "m", "p", ";", "&", "l", "t", ";">>

\* The tag the documented precedence gives a field: Number for a signed 64-bit
\* integer, else Number for a 64-bit float, else Date for YYYY-MM-DD, then
\* MM/DD/YYYY, then DD/MM/YYYY, else String.
DocumentedTag(field) ==
    IF parse_i64_ok(field) \/ parse_f64_ok(field) THEN "n"
    ELSE IF \E fmt \in {FMT_YMD, FMT_MDY, FMT_DMY} : date_matches(field, fmt) THEN "d"
    ELSE "str"

\* C19: infer_row_types does not fail and returns one tag per field, in field
\* order, each chosen by the documented precedence ("2024-01-05" and
\* "01/05/2024" are dates, "hello" and the empty field are strings).
C19_InferPrecedence ==
    last.op = "infer_row_types" =>
        /\ last.result = "ok"
        /\ Len(last.out) = Len(last.args.data)
        /\ \A i \in 1..Len(last.out) : last.out[i] = DocumentedTag(last.args.data[i])

(***************************************************************************)
(* The column-letter cache taken alone: col_to_letter called with column   *)
(* indices in any order on the cache of a new worksheet.  A panic ends the *)
(* behaviour.                                                              *)
(***************************************************************************)
MaxLookup == 8

Lookup ==
    /\ last.result # "panic"
    /\ \E col \in 0..MaxLookup :
          LET r == col_to_letter(col_num_to_letter, col)
          IN  /\ col_num_to_letter' = r.cache
              /\ last' = [op |-> "col_to_letter", args |-> [col |-> col],
                          result |-> IF r.panic THEN "panic" ELSE "ok", out |-> r.letter]
    /\ UNCHANGED <<kind, current_row_num, has_auto_filter, sheet_data_started,
                   freeze_top_row, sink, count, phase>>

SpecCache == Init /\ [][Lookup]_vars

\* C16: the cache returns the letters of the column asked for, whatever the
\* order of the requests: column 5 asked of a cache that does not hold columns
\* 0..4 gives "F", and column 2 asked next gives "C", neither failing.
C16_LookupInAnyOrder ==
    last.op = "col_to_letter" =>
        /\ last.result = "ok"
        /\ last.out = ColumnLetters(last.args.col)

\* The t attributes of a row element, in column order.
Tags(row) == [c \in 1..Len(row.cells) |-> row.cells[c].t]

\* Rows of w cells that all hold the same bytes.
UniformRows(w) == { [i \in 1..w |-> Samples[s]] : s \in 1..Len(Samples) }

\* C20: the t attributes TypedSheet.write_row emits depend on the row counter,
\* the column index and the types list only: the same call with other cell
\* contents emits the same t for every cell and leaves the same row counter, so
\* a cell whose content is not of the inferred type still carries that type.
C20_TagIgnoresContent ==
    [][(kind = "TypedSheet" /\ last'.op = "write_row") =>
          \A other \in UniformRows(Len(last'.args.data)) :
              LET r == write_row(kind, col_num_to_letter, current_row_num, other,
                                 last'.args.types)
              IN  /\ Tags(r.element) = Tags(sink'[Len(sink')])
                  /\ r.current_row_num = current_row_num']_vars

C20_Witness ==
    /\ kind = "TypedSheet" /\ last.op = "write_row" /\ count.write_row >= 2
    /\ last.args.types = <<TYPE_DATE, TYPE_STRING>>
    /\ Len(last.args.data) >= 1
    /\ last.args.data[1] = <<"a">>
    /\ LastElement.cells[1].v = <<"a">>
    /\ LastElement.cells[1].t = "d"

\* C22: invoked with the counter value 0, the row-digit encoder of both writers
\* returns digit count 1 and the single digit "0".
C22_ZeroIsOneDigit ==
    last.op = "num_to_bytes_0" =>
        /\ last.result = "ok"
        /\ last.out.digits = 1
        /\ SubSeq(last.out.arr, 9 - last.out.digits + 1, 9) = <<"0">>

\* C26: with the auto-filter flag set and no cell ever written (no row, or only
\* empty rows), close appends the sheetData close tag and the worksheet close
\* tag, and no autoFilter element.
C26_NoFilterWithoutCells ==
    [][(last'.op = "close" /\ has_auto_filter /\ MaxWidth(RowElements(sink)) = 0) =>
          sink' = sink \o <<SheetDataClose, WorksheetClose>>]_vars

C26_Witness ==
    /\ last.op = "close" /\ has_auto_filter /\ count.close = 1
    /\ Len(RowElements(sink)) = 1
    /\ RowElements(sink)[1].cells = <<>>
    /\ sink[Len(sink) - 1] = SheetDataClose
    /\ sink[Len(sink)] = WorksheetClose

\* C23: through any sequence of calls, after every step the column-letter cache
\* is as long as the widest row written so far and entry i holds the letters of
\* column i; the cache only grows, keeping its entries; and no lookup made by
\* write_row or close indexes outside the cache.
C23_CacheInvariant ==
    [][/\ Len(col_num_to_letter') = MaxWidth(RowElements(sink'))
       /\ \A i \in 1..Len(col_num_to_letter') : col_num_to_letter'[i] = ColumnLetters(i - 1)
       /\ Len(col_num_to_letter') >= Len(col_num_to_letter)
       /\ SubSeq(col_num_to_letter', 1, Len(col_num_to_letter)) = col_num_to_letter
       /\ (last'.op = "write_row" =>
              ~cells_lookup_panics(col_num_to_letter, last'.args.data, 0))
       /\ (last'.op = "close" =>
              ~close_lookup_panics(has_auto_filter, col_num_to_letter))]_vars

C23_Witness ==
    /\ last.op = "write_row" /\ count.write_row = 2
    /\ Len(RowElements(sink)) = 2
    /\ Len(RowElements(sink)[1].cells) = 2
    /\ Len(RowElements(sink)[2].cells) = 1
    /\ col_num_to_letter = << <<"A">>, <<"B">> >>

\* C25: whatever calls failed at the sink, the row elements present in the sink
\* are numbered r = 1, 2, ..., k in order, with no gap and no duplicate: a
\* write_row call that returns an error consumes no row number.
C25_RowNumbersConsecutive ==
    \A i \in 1..Len(RowElements(sink)) : RowElements(sink)[i].r = Decimal(i)

(***************************************************************************)
(* The conversions of the callers (the csv command of the CLI, and          *)
(* csv_to_xlsx, py_2d_to_xlsx, typed_py_2d_to_xlsx): a typed worksheet, the *)
(* flags, init_sheet, one write_row per record, close, then                 *)
(* workbook.finish() and the output.  Every Result of the worksheet is      *)
(* tested with expect or with `if let Err(e) = .. { panic!(..) }`.  phase   *)
(* is the caller's position: Configured, Writing, Closed, Finished (the     *)
(* archive is finalized and the output produced) or Aborted (a panic).      *)
(***************************************************************************)
\* Mutant of after_call: the Result is dropped.
after_call_ignoring_result(result, next) == next

\* .expect(..) and `if let Err(e) = .. { panic!("{e}") }`
after_call(result, next) == IF result = "err" THEN "Aborted" ELSE next

InitDriver ==
    /\ kind = "TypedSheet"
    /\ col_num_to_letter = <<>>
    /\ current_row_num = 0
    /\ has_auto_filter = FALSE
    /\ sheet_data_started = FALSE
    /\ freeze_top_row = FALSE
    /\ \E open \in {"ok", "err"}, o \in Outcomes :
          LET r == new_io(open, o)
          IN  /\ r.faults <= MaxFaults
              /\ sink = r.sink
              /\ last = [op |-> "new", args |-> NoArgs, result |-> r.result,
                         sink_error |-> r.sink_error]
              /\ count = [init_sheet |-> 0, write_row |-> 0, close |-> 0,
                          faults |-> r.faults, errors |-> 0]
    /\ phase = "Configured"

DriverFreezeTopRow ==
    /\ phase = "Configured"
    /\ ~freeze_top_row /\ ~has_auto_filter
    /\ FreezeTopRow

DriverAddAutoFilter ==
    /\ phase = "Configured"
    /\ ~has_auto_filter
    /\ AddAutoFilter

DriverInitSheet ==
    /\ phase = "Configured"
    /\ \E o1 \in Outcomes, o2 \in Outcomes :
          LET r == init_sheet_io(kind, freeze_top_row, sheet_data_started, sink, o1, o2)
          IN  /\ count.faults + r.faults <= MaxFaults
              /\ sink' = r.sink
              /\ sheet_data_started' = r.sheet_data_started
              /\ last' = [op |-> "init_sheet", args |-> NoArgs, result |-> r.result,
                          sink_error |-> r.sink_error]
              /\ count' = [count EXCEPT !.init_sheet = @ + 1, !.faults = @ + r.faults,
                                        !.errors = @ + (IF r.result = "err" THEN 1 ELSE 0)]
              /\ phase' = after_call(r.result, "Writing")
    /\ UNCHANGED <<kind, col_num_to_letter, current_row_num, has_auto_filter,
                   freeze_top_row>>

DriverWriteRow ==
    /\ phase = "Writing"
    /\ Calls < MaxCalls
    /\ \E data \in Rows, types \in TypeLists, o \in Outcomes :
          LET r == write_row_io(kind, col_num_to_letter, current_row_num, sink,
                                data, types, o)
          IN  /\ count.faults + r.faults <= MaxFaults
              /\ current_row_num' = r.current_row_num
              /\ col_num_to_letter' = r.col_num_to_letter
              /\ sink' = r.sink
              /\ last' = [op |-> "write_row", args |-> [data |-> data, types |-> types],
                          result |-> r.result, sink_error |-> r.sink_error]
              /\ count' = [count EXCEPT !.write_row = @ + 1, !.faults = @ + r.faults,
                                        !.errors = @ + (IF r.result = "err" THEN 1 ELSE 0)]
              /\ phase' = after_call(r.result, "Writing")
    /\ UNCHANGED <<kind, has_auto_filter, sheet_data_started, freeze_top_row>>

DriverClose ==
    /\ phase = "Writing"
    /\ \E o1 \in Outcomes, o2 \in Outcomes, o3 \in Outcomes :
          LET r == close_io(has_auto_filter, col_num_to_letter, sink, o1, o2, o3)
          IN  /\ count.faults + r.faults <= MaxFaults
              /\ sink' = r.sink
              /\ last' = [op |-> "close", args |-> NoArgs, result |-> r.result,
                          sink_error |-> r.sink_error]
              /\ count' = [count EXCEPT !.close = @ + 1, !.faults = @ + r.faults,
                                        !.errors = @ + (IF r.result = "err" THEN 1 ELSE 0)]
              /\ phase' = after_call(r.result, "Closed")
    /\ UNCHANGED <<kind, col_num_to_letter, current_row_num, has_auto_filter,
                   sheet_data_started, freeze_top_row>>

\* workbook.finish().ok().unwrap(), then the output (the file, or the PyBytes).
DriverFinish ==
    /\ phase = "Closed"
    /\ \E o \in {"ok", "err"} :
          /\ last' = [op |-> "finish", args |-> NoArgs, result |-> o, sink_error |-> FALSE]
          /\ phase' = after_call(o, "Finished")
    /\ UNCHANGED <<kind, col_num_to_letter, current_row_num, has_auto_filter,
                   sheet_data_started, freeze_top_row, sink, count>>

NextDriver ==
    \/ DriverFreezeTopRow \/ DriverAddAutoFilter \/ DriverInitSheet
    \/ DriverWriteRow \/ DriverClose \/ DriverFinish

SpecDriver == InitDriver /\ [][NextDriver]_vars

\* C21: in the conversions the archive is finalized and the output produced
\* only after init_sheet, every write_row and close have returned success; once
\* one of them has returned an error the conversion is aborted, and it never
\* reaches finish.
C21_FinishOnlyAfterSuccess ==
    /\ phase = "Finished" =>
          (count.errors = 0 /\ count.init_sheet = 1 /\ count.close = 1)
    /\ last.op = "finish" =>
          (count.errors = 0 /\ count.init_sheet = 1 /\ count.close = 1)
    /\ count.errors > 0 => phase = "Aborted"

C21_Witness ==
    /\ phase = "Aborted"
    /\ last.op = "write_row" /\ last.result = "err"
    /\ count.init_sheet = 1 /\ count.write_row = 1 /\ count.errors = 1

(***************************************************************************)
(* The two writers side by side on string data: a TypedSheet in the        *)
(* variables of the worksheet and a Sheet in last.twin receive the same     *)
(* calls in the documented order (flags, one init_sheet, write_row calls,   *)
(* one close); the TypedSheet is given TYPE_STRING for every column.        *)
(***************************************************************************)
\* vec![TYPE_STRING; n]
StringTypes(n) == [i \in 1..n |-> TYPE_STRING]

InitPair ==
    /\ kind = "TypedSheet"
    /\ col_num_to_letter = <<>>
    /\ current_row_num = 0
    /\ has_auto_filter = FALSE
    /\ sheet_data_started = FALSE
    /\ freeze_top_row = FALSE
    /\ sink = <<WorksheetOpen>>
    /\ last = [op |-> "new", args |-> NoArgs, result |-> "ok",
               twin |-> [sink |-> <<WorksheetOpen>>, current_row_num |-> 0,
                         col_num_to_letter |-> <<>>, sheet_data_started |-> FALSE]]
    /\ count = [init_sheet |-> 0, write_row |-> 0, close |-> 0]
    /\ phase = "Configured"

PairFreezeTopRow ==
    /\ phase = "Configured"
    /\ ~freeze_top_row
    /\ freeze_top_row' = TRUE
    /\ last' = [op |-> "freeze_top_row", args |-> NoArgs, result |-> "ok",
                twin |-> last.twin]
    /\ UNCHANGED <<kind, col_num_to_letter, current_row_num, has_auto_filter,
                   sheet_data_started, sink, count, phase>>

PairAddAutoFilter ==
    /\ phase = "Configured"
    /\ ~has_auto_filter
    /\ has_auto_filter' = TRUE
    /\ last' = [op |-> "add_auto_filter", args |-> NoArgs, result |-> "ok",
                twin |-> last.twin]
    /\ UNCHANGED <<kind, col_num_to_letter, current_row_num, freeze_top_row,
                   sheet_data_started, sink, count, phase>>

PairInitSheet ==
    /\ phase = "Configured"
    /\ LET r == init_sheet("TypedSheet", freeze_top_row, sheet_data_started, sink)
           t == init_sheet("Sheet", freeze_top_row, last.twin.sheet_data_started,
                           last.twin.sink)
       IN  /\ sink' = r.sink
           /\ sheet_data_started' = r.sheet_data_started
           /\ last' = [op |-> "init_sheet", args |-> NoArgs, result |-> "ok",
                       twin |-> [last.twin EXCEPT !.sink = t.sink,
                                                  !.sheet_data_started = t.sheet_data_started]]
    /\ count' = [count EXCEPT !.init_sheet = @ + 1]
    /\ phase' = "Writing"
    /\ UNCHANGED <<kind, col_num_to_letter, current_row_num, has_auto_filter,
                   freeze_top_row>>

PairWriteRow ==
    /\ phase = "Writing"
    /\ Calls < MaxCalls
    /\ \E data \in Rows, n \in 0..MaxCols :
          /\ n >= Len(data)
          /\ LET r == write_row("TypedSheet", col_num_to_letter, current_row_num, data,
                                StringTypes(n))
                 t == write_row("Sheet", last.twin.col_num_to_letter,
                                last.twin.current_row_num, data, <<>>)
             IN  /\ current_row_num' = r.current_row_num
                 /\ col_num_to_letter' = r.col_num_to_letter
                 /\ sink' = Append(sink, r.element)
                 /\ last' = [op |-> "write_row",
                             args |-> [data |-> data, types |-> StringTypes(n)],
                             result |-> "ok",
                             twin |-> [last.twin EXCEPT
                                          !.sink = Append(@, t.element),
                                          !.current_row_num = t.current_row_num,
                                          !.col_num_to_letter = t.col_num_to_letter]]
    /\ count' = [count EXCEPT !.write_row = @ + 1]
    /\ UNCHANGED <<kind, has_auto_filter, sheet_data_started, freeze_top_row, phase>>

PairClose ==
    /\ phase = "Writing"
    /\ sink' = close(has_auto_filter, col_num_to_letter, sink)
    /\ last' = [op |-> "close", args |-> NoArgs, result |-> "ok",
                twin |-> [last.twin EXCEPT
                             !.sink = close(has_auto_filter, last.twin.col_num_to_letter, @)]]
    /\ count' = [count EXCEPT !.close = @ + 1]
    /\ phase' = "Closed"
    /\ UNCHANGED <<kind, col_num_to_letter, current_row_num, has_auto_filter,
                   sheet_data_started, freeze_top_row>>

NextPair ==
    PairFreezeTopRow \/ PairAddAutoFilter \/ PairInitSheet \/ PairWriteRow \/ PairClose

SpecPair == InitPair /\ [][NextPair]_vars

\* C24: on runs in the documented order with the same flags and rows, the
\* TypedSheet given TYPE_STRING for every column and the Sheet hold the same
\* content in their sinks, the same row counter and the same column-letter
\* cache, after every call and so at the end.
C24_WritersAgreeOnStrings ==
    /\ sink = last.twin.sink
    /\ current_row_num = last.twin.current_row_num
    /\ col_num_to_letter = last.twin.col_num_to_letter

C24_Witness ==
    /\ phase = "Closed" /\ freeze_top_row /\ has_auto_filter
    /\ count.write_row = 2
    /\ Len(RowElements(last.twin.sink)) = 2
    /\ Len(RowElements(sink)[2].cells) = 2
    /\ RowElements(sink)[2].cells[2].t = "str"
    /\ sink = last.twin.sink

====
